---------------------------- MODULE Spec2Model ----------------------------
(***************************************************************************)
(* Model of the simulation engine of src/app.py: BusinessParams,          *)
(* calculate_total_revenue, calculate_total_costs and run_simulation,     *)
(* driven by main(), which builds a BusinessParams and calls               *)
(* run_simulation(params, num_simulations).                                *)
(*                                                                         *)
(* Numbers.  The program computes in floating point; the model computes   *)
(* exactly.  Parameters, deviates and therefore units, revenue, costs and *)
(* profit are integers; every quotient (ROI, breakeven, mean, quantile)   *)
(* is a fraction [num, den] in lowest terms with den > 0.  +infinity is   *)
(* the fraction with den = 0 and num = 1.                                  *)
(*                                                                         *)
(* Randomness.  np.random.normal draws from numpy's process-global        *)
(* generator.  The generator's state is the variable rng: the stream of   *)
(* standard-normal deviates it will still produce.  A draw takes the head *)
(* of the stream and leaves the tail as the new state.  The state the     *)
(* process starts in (numpy seeds it from the operating system) is any    *)
(* stream.                                                                 *)
(***************************************************************************)
EXTENDS Integers, Sequences, FiniteSets, TLC

VARIABLES
    pc,               \* where main()/run_simulation is
    params,           \* the BusinessParams main() built
    num_simulations,  \* the trial count main() passes
    rng,              \* state of numpy's global generator
    results,          \* run_simulation's list of row dicts
    draws,            \* what np.random.normal returned, trial by trial
    df,               \* the DataFrame built from results
    breakeven_units,  \* run_simulation's local of that name
    metrics,          \* the metrics dict
    prev              \* what the previous run of the script was given and returned

vars == <<pc, params, num_simulations, rng, results, draws, df, breakeven_units, metrics, prev>>

----------------------------------------------------------------------------
(* Bounds of the model *)

\* length of the generator stream of the single-run specification
StreamLen == 3

\* length of the generator stream of the rerun specification
RerunStreamLen == 4

\* largest trial count of the percentile specification
PctTrials == 11

\* standard-normal deviates the generator may produce
Deviates == {-2, 0, 1}

\* deviates of the rerun and percentile specifications
TwoDeviates == {-2, 1}

----------------------------------------------------------------------------
(* Exact fractions *)

Abs(x) == IF x < 0 THEN -x ELSE x

RECURSIVE GCD(_, _)
GCD(a, b) == IF b = 0 THEN a ELSE GCD(b, a % b)

\* a value not yet assigned
Unset == [unset |-> TRUE]

\* float('inf')
Inf == [num |-> 1, den |-> 0]

\* what a division by zero yields: the run ends with the exception
ZeroDivisionError == [num |-> 0, den |-> 0]

\* n / d
Div(n, d) ==
    IF d = 0 THEN ZeroDivisionError
    ELSE LET s == IF d < 0 THEN -1 ELSE 1
             g == GCD(Abs(n), Abs(d))
         IN  [num |-> (s * n) \div g, den |-> (s * d) \div g]

\* the integer k as a fraction
Int2Frac(k) == [num |-> k, den |-> 1]

\* a <= b for finite fractions
FracLeq(a, b) == a.num * b.den <= b.num * a.den

\* a < b for finite fractions
FracLess(a, b) == a.num * b.den < b.num * a.den


----------------------------------------------------------------------------
(* BusinessParams *)

BP(ub, us, ppu, sr, ar, fc, vc, nrc, ne, es) ==
    [units_base |-> ub, units_std |-> us, price_per_unit |-> ppu,
     subscription_rate |-> sr, addon_rate |-> ar, fixed_costs |-> fc,
     variable_cost_per_unit |-> vc, non_recurring_costs |-> nrc,
     num_employees |-> ne, employee_salary |-> es]

\* the Parameter Records main() may build: every field >= 0
ParamSet ==
    { BP(1185, 10, 100, 50, 25, 50000, 40, 10000, 2, 50000), \* the form's defaults, contribution 135
      BP(2, 1, 3, 0, 0, 2, 1, 1, 1, 1),    \* contribution 2, breakeven at 2 units
      BP(1, 1, 0, 0, 0, 0, 0, 0, 0, 5),    \* everything free: contribution 0, cost 0
      BP(1, 2, 1, 0, 0, 1, 3, 0, 0, 0),    \* a unit that loses money: contribution -2
      BP(1, 1, 1, 1, 0, 0, 1, 0, 2, 0),    \* cost 0 only when no unit is sold
      BP(2, 0, 1, 1, 1, 1, 1, 1, 1, 1),    \* no variation: constant profit
      BP(0, 1, 2, 0, 1, 0, 3, 2, 0, 1) }   \* contribution 0 with costs

\* the Parameter Records of the rerun and percentile specifications
SmallParamSet ==
    { BP(2, 1, 3, 0, 0, 2, 1, 1, 1, 1),
      BP(1, 2, 1, 0, 0, 1, 3, 0, 0, 0) }

\* all generator streams of length n over the deviates D
Streams(n, D) == [1..n -> D]

----------------------------------------------------------------------------
(* Financial model *)

calculate_total_revenue(units, p) ==
    LET base_revenue == units * p.price_per_unit
        subscription_revenue == units * p.subscription_rate
        addon_revenue == units * p.addon_rate
        total == base_revenue + subscription_revenue + addon_revenue
    IN  [base |-> base_revenue, subscription |-> subscription_revenue,
         addons |-> addon_revenue, total |-> total]

calculate_total_costs_once(units, p) ==
    LET employee_costs == p.num_employees * p.employee_salary
        fixed_costs == p.fixed_costs + employee_costs
        variable_costs == units * p.variable_cost_per_unit
        total == fixed_costs + variable_costs
    IN  [fixed |-> fixed_costs, variable |-> variable_costs,
         non_recurring |-> p.non_recurring_costs, total |-> total]

calculate_total_costs(units, p) ==
    LET employee_costs == p.num_employees * p.employee_salary
        fixed_costs == p.fixed_costs + employee_costs
        variable_costs == units * p.variable_cost_per_unit
        total == fixed_costs + variable_costs + p.non_recurring_costs
    IN  [fixed |-> fixed_costs, variable |-> variable_costs,
         non_recurring |-> p.non_recurring_costs, total |-> total]

----------------------------------------------------------------------------
(* Trial sampler *)

\* np.random.normal(loc, scale) when the generator produces the deviate z
Normal(loc, scale, z) == loc + scale * z

ClampUnitsMissing(draw) == draw

\* max(0, draw)
ClampUnits(draw) == IF draw > 0 THEN draw ELSE 0

----------------------------------------------------------------------------
(* One trial *)

RoiGuardNonStrict(profit, cost) ==
    IF cost >= 0 THEN Div(profit * 100, cost) ELSE Int2Frac(0)

\* (profit / costs['total']) * 100 if costs['total'] > 0 else 0
Roi(profit, cost) ==
    IF cost > 0 THEN Div(profit * 100, cost) ELSE Int2Frac(0)

TrialRowStoresBase(units, p) ==
    LET revenue == calculate_total_revenue(units, p)
        costs == calculate_total_costs(units, p)
        profit == revenue.total - costs.total
    IN  [Units |-> units, Revenue |-> revenue.base, Costs |-> costs.total,
         Profit |-> profit, ROI |-> Roi(profit, costs.total)]

\* the dict one loop iteration appends
TrialRow(units, p) ==
    LET revenue == calculate_total_revenue(units, p)
        costs == calculate_total_costs(units, p)
        profit == revenue.total - costs.total
    IN  [Units |-> units, Revenue |-> revenue.total, Costs |-> costs.total,
         Profit |-> profit, ROI |-> Roi(profit, costs.total)]

----------------------------------------------------------------------------
(* Summary metrics *)

UnitContribution(p) ==
    p.price_per_unit + p.subscription_rate + p.addon_rate - p.variable_cost_per_unit

FixedAndNonrecurring(p) ==
    p.fixed_costs + p.non_recurring_costs + (p.num_employees * p.employee_salary)

BreakevenUnitsNoSalaries(p) ==
    IF UnitContribution(p) > 0
    THEN Div(p.fixed_costs + p.non_recurring_costs, UnitContribution(p))
    ELSE Inf

BreakevenUnitsGuardNonStrict(p) ==
    IF UnitContribution(p) >= 0
    THEN Div(FixedAndNonrecurring(p), UnitContribution(p))
    ELSE Inf

\* fixed_and_nonrecurring / unit_contribution if unit_contribution > 0 else float('inf')
BreakevenUnits(p) ==
    IF UnitContribution(p) > 0
    THEN Div(FixedAndNonrecurring(p), UnitContribution(p))
    ELSE Inf

\* the column of a table
Column(table, name) == [i \in 1..Len(table) |-> table[i][name]]

RECURSIVE SumSeq(_)
SumSeq(s) == IF s = <<>> THEN 0 ELSE Head(s) + SumSeq(Tail(s))

\* Series.mean()
Mean(col) == Div(SumSeq(col), Len(col))

\* Series.quantile(tenths / 10), pandas' default linear interpolation:
\* at position h = q * (n - 1) of the sorted column (from 0), the value is
\* x[floor(h)] + (x[floor(h) + 1] - x[floor(h)]) * frac(h)
Quantile(col, tenths) ==
    LET x == SortSeq(col, LAMBDA a, b : a < b)
        h10 == tenths * (Len(col) - 1)
        lo == (h10 \div 10) + 1
        frac10 == h10 % 10
        hi == IF frac10 = 0 THEN lo ELSE lo + 1
    IN  Div(10 * x[lo] + (x[hi] - x[lo]) * frac10, 10)

MetricsOfSwapped(table, be) ==
    [breakeven_units |-> be,
     poor_case |-> Quantile(Column(table, "Profit"), 9),
     average_case |-> Mean(Column(table, "Profit")),
     good_case |-> Quantile(Column(table, "Profit"), 1)]

\* the metrics dict
MetricsOf(table, be) ==
    [breakeven_units |-> be,
     poor_case |-> Quantile(Column(table, "Profit"), 1),
     average_case |-> Mean(Column(table, "Profit")),
     good_case |-> Quantile(Column(table, "Profit"), 9)]

----------------------------------------------------------------------------
(* main() and run_simulation *)

NoPrev == [valid |-> FALSE]

\* the trial counts a caller may pass while the stream r can serve them
TrialCounts(r) == {-1} \cup (0..Len(r))

\* main() has built params and is about to call run_simulation
Start(streams, P) ==
    /\ pc = "call"
    /\ params \in P
    /\ rng \in streams
    /\ num_simulations \in TrialCounts(rng)
    /\ results = <<>>
    /\ draws = <<>>
    /\ df = Unset
    /\ breakeven_units = Unset
    /\ metrics = Unset
    /\ prev = NoPrev

Init == Start(Streams(StreamLen, Deviates), ParamSet)

\* run_simulation is entered: results = []
Call ==
    /\ pc = "call"
    /\ pc' = "loop"
    /\ results' = <<>>
    /\ draws' = <<>>
    /\ df' = Unset
    /\ breakeven_units' = Unset
    /\ metrics' = Unset
    /\ UNCHANGED <<params, num_simulations, rng, prev>>

LoopRunningOneMore == Len(results) <= num_simulations

\* for _ in range(num_simulations): another iteration is due
LoopRunning == Len(results) < num_simulations

\* one iteration of the loop
Trial ==
    /\ pc = "loop"
    /\ LoopRunning
    /\ rng # <<>>
    /\ LET draw == Normal(params.units_base, params.units_std, Head(rng))
           units == ClampUnits(draw)
           row == TrialRow(units, params)
       IN  /\ draws' = Append(draws, draw)
           /\ IF row.ROI = ZeroDivisionError
              THEN /\ pc' = "ZeroDivisionError"
                   /\ UNCHANGED results
              ELSE /\ pc' = "loop"
                   /\ results' = Append(results, row)
    /\ rng' = Tail(rng)
    /\ UNCHANGED <<params, num_simulations, df, breakeven_units, metrics, prev>>

\* the loop is over: df = pd.DataFrame(results), then breakeven_units
Breakeven ==
    /\ pc = "loop"
    /\ ~LoopRunning
    /\ df' = results
    /\ breakeven_units' = BreakevenUnits(params)
    /\ pc' = "metrics"
    /\ UNCHANGED <<params, num_simulations, rng, results, draws, metrics, prev>>

\* metrics = {...}; return df, metrics.  A DataFrame built from an empty
\* list has no columns, so df['Profit'] raises KeyError.
Metrics ==
    /\ pc = "metrics"
    /\ IF df = <<>>
       THEN /\ pc' = "KeyError"
            /\ UNCHANGED metrics
       ELSE /\ pc' = "done"
            /\ metrics' = MetricsOf(df, breakeven_units)
    /\ UNCHANGED <<params, num_simulations, rng, results, draws, df, breakeven_units, prev>>

\* the script runs again in the same process (Streamlit reruns it on every
\* interaction): main() builds params anew and calls run_simulation again
Rerun(P) ==
    /\ pc \in {"done", "KeyError"}
    /\ prev' = [valid |-> TRUE, params |-> params,
                num_simulations |-> num_simulations,
                returned |-> (pc = "done"), df |-> df]
    /\ pc' = "call"
    /\ params' \in P
    /\ num_simulations' \in TrialCounts(rng)
    /\ UNCHANGED <<rng, results, draws, df, breakeven_units, metrics>>

Run == Call \/ Trial \/ Breakeven \/ Metrics

Next == Run

Spec == Init /\ [][Next]_vars

\* a call that has started runs on
FairSpec == Spec /\ WF_vars(Next)

InitRerun == Start(Streams(RerunStreamLen, TwoDeviates), SmallParamSet)

NextRerun == Run \/ Rerun(SmallParamSet)

SpecRerun == InitRerun /\ [][NextRerun]_vars

\* the percentile specification: every stream of up to PctTrials deviates,
\* the call consuming all of it
InitPct ==
    /\ \E n \in 1..PctTrials : Start(Streams(n, TwoDeviates), SmallParamSet)
    /\ num_simulations = Len(rng)

SpecPct == InitPct /\ [][Next]_vars

----------------------------------------------------------------------------
(* Properties *)

Rows == 1..Len(results)

\* run_simulation has left the loop
PastLoop == pc \in {"metrics", "done", "KeyError"}

\* C1: a call with num_simulations <= 0 fails before any trial is sampled and
\* before any summary metric is computed, and returns no table.
C1_FailsFastOnNonPositiveCount ==
    num_simulations <= 0 =>
        /\ results = <<>>
        /\ breakeven_units = Unset
        /\ metrics = Unset
        /\ pc # "done"

\* a step leaves the rows alone, empties them on entry, or appends one row
\* behind those already there while iterations are due
RowAppended ==
    \/ results' = results
    \/ pc = "call" /\ results' = <<>>
    \/ /\ pc = "loop"
       /\ Len(results) < num_simulations
       /\ Len(results') = Len(results) + 1
       /\ SubSeq(results', 1, Len(results)) = results

\* C2: for every positive N the call ends and returns a table of exactly N
\* rows, each appended by one loop iteration behind the earlier ones; no
\* positive N ends in an exception.
C2_ExactlyNRows ==
    /\ [][RowAppended]_vars
    /\ [](num_simulations > 0 =>
            /\ pc \notin {"KeyError", "ZeroDivisionError"}
            /\ Len(results) <= num_simulations
            /\ pc = "done" => (Len(df) = num_simulations /\ df = results))
    /\ ((pc = "call" /\ num_simulations > 0) ~> (pc = "done"))

C2_Witness ==
    /\ pc = "done"
    /\ num_simulations >= 2
    /\ Len(df) = num_simulations
    /\ metrics # Unset

\* C5: every row's units are >= 0, and are the trial's own draw with a
\* negative draw replaced by 0: one draw, one row.
C5_UnitsClamped ==
    /\ pc # "ZeroDivisionError" => Len(draws) = Len(results)
    /\ \A i \in Rows :
         /\ results[i].Units >= 0
         /\ results[i].Units = (IF draws[i] < 0 THEN 0 ELSE draws[i])

C5_Witness ==
    /\ pc = "done"
    /\ \E i \in Rows : draws[i] < 0 /\ results[i].Units = 0
    /\ \E i \in Rows : draws[i] > 0 /\ results[i].Units = draws[i]

\* C6: a row's ROI is 100 * Profit / Costs when Costs > 0 and 0 when
\* Costs = 0, and no run ends in a division by zero.
C6_RoiGuarded ==
    /\ pc # "ZeroDivisionError"
    /\ \A i \in Rows :
         /\ results[i].Costs >= 0
         /\ results[i].Costs > 0 =>
              /\ results[i].ROI.den > 0
              /\ results[i].ROI = Div(100 * results[i].Profit, results[i].Costs)
         /\ results[i].Costs = 0 => results[i].ROI = Int2Frac(0)

C6_Witness ==
    /\ pc = "done"
    /\ \E i \in Rows : results[i].Costs = 0 /\ results[i].ROI = Int2Frac(0)
    /\ \E i \in Rows : results[i].Costs > 0 /\ results[i].ROI.num # 0

\* the fraction b is f / c, for c > 0
IsQuotient(b, f, c) == b.den > 0 /\ b.num * c = f * b.den

\* C7: breakeven_units is (fixed_costs + non_recurring_costs + num_employees
\* * employee_salary) / (price_per_unit + subscription_rate + addon_rate -
\* variable_cost_per_unit) when that contribution is > 0 and +infinity
\* otherwise, whatever the trials were; contribution 135 with a fixed total
\* of 160000 gives 160000/135 = 32000/27.
C7_BreakevenFormula ==
    PastLoop =>
        LET f == params.fixed_costs + params.non_recurring_costs
                    + params.num_employees * params.employee_salary
            c == params.price_per_unit + params.subscription_rate
                    + params.addon_rate - params.variable_cost_per_unit
        IN  /\ c > 0 => IsQuotient(breakeven_units, f, c)
            /\ c <= 0 => breakeven_units = Inf
            /\ (c = 135 /\ f = 160000) => breakeven_units = [num |-> 32000, den |-> 27]
            /\ pc = "done" => metrics.breakeven_units = breakeven_units

C7_Witness ==
    /\ pc = "done"
    /\ UnitContribution(params) = 135
    /\ metrics.breakeven_units = [num |-> 32000, den |-> 27]
    /\ Len(df) >= 2

C7_WitnessInfinite ==
    /\ pc = "done"
    /\ UnitContribution(params) = 0
    /\ metrics.breakeven_units = Inf

\* C8: every row's Revenue and Costs are the formulas applied to that row's
\* units; non_recurring_costs is part of every row's Costs.
C8_RowsRecomputed ==
    \A i \in Rows :
        LET u == results[i].Units
        IN  /\ results[i].Revenue = u * params.price_per_unit
                    + u * params.subscription_rate + u * params.addon_rate
            /\ results[i].Costs = params.fixed_costs
                    + params.num_employees * params.employee_salary
                    + u * params.variable_cost_per_unit
                    + params.non_recurring_costs

C8_Witness ==
    /\ pc = "done"
    /\ params.non_recurring_costs > 0
    /\ \E i, j \in Rows :
         /\ results[i].Units # results[j].Units
         /\ results[i].Costs # results[j].Costs
         /\ results[i].Revenue # results[j].Revenue

\* C9: in every row Profit = Revenue - Costs.
C9_ProfitIsRevenueMinusCosts ==
    \A i \in Rows : results[i].Profit = results[i].Revenue - results[i].Costs

C9_Witness ==
    /\ pc = "done"
    /\ \E i \in Rows :
         /\ results[i].Units > 0
         /\ results[i].Revenue > results[i].Units * params.price_per_unit
         /\ results[i].Costs > 0
         /\ results[i].Profit # 0

C10_WitnessUnreachable ==
    /\ pc = "done"
    /\ UnitContribution(params) < 0
    /\ metrics.breakeven_units = Inf
    /\ \E i \in Rows : results[i].Units > 0 /\ results[i].Profit < 0

\* C3: run_simulation(params, num_simulations) takes no random source and no
\* seed, so what a caller supplies to a run is params and num_simulations;
\* two runs supplied the same return identical tables.
C3_SameInputsSameTable ==
    ( /\ pc = "done"
      /\ prev.valid
      /\ prev.returned
      /\ prev.params = params
      /\ prev.num_simulations = num_simulations )
    => df = prev.df

\* the profit column of the returned table
ProfitColumn == Column(df, "Profit")

NonConstant(col) == \E i, j \in 1..Len(col) : col[i] # col[j]

Ordered(m) ==
    /\ FracLeq(m.poor_case, m.average_case)
    /\ FracLeq(m.average_case, m.good_case)

============================================================================
